---- MODULE Spec2Model ----
(***************************************************************************)
(* A model of InstanceTracker (coreutils) and of WidgetTracker (apputils), *)
(* which wraps an InstanceTracker and a FocusTracker.                      *)
(*                                                                         *)
(* Every async method is split at its awaits: the synchronous prefix is    *)
(* one action, each continuation another.  A connector operation or a      *)
(* command execution that is in flight may settle at any later step,       *)
(* with success or with failure, in any order.  The connector applies an   *)
(* operation to its store when the operation settles successfully.         *)
(***************************************************************************)
EXTENDS Integers, Sequences, FiniteSets, TLC

VARIABLES
  \* the tracked objects and the module-level attached properties
  isDisposedObj,     \* obj.isDisposed
  injectedProperty,  \* Private.injectedProperty
  nameProperty,      \* Private.nameProperty
  \* InstanceTracker fields
  _instances, _current, _hasRestored, _restore, _isDisposed, _restored,
  slots,             \* obj.disposed's connected slots, in connection order
  \* the data connector and the calls suspended on it
  store,             \* key -> persisted value
  pending,           \* suspended add / save calls and fire-and-forget removals
  \* the restore call
  restorePc, listState, whenPending, saved, entry, execCnt, removeCnt,
  \* WidgetTracker fields and its FocusTracker
  connected,         \* the WidgetTracker's slots on the InstanceTracker's signals
  focusConnected,    \* the WidgetTracker's slot on focus.currentChanged
  w_isDisposed, focusWidgets, focusCurrent,
  \* what the last step did
  thrown,            \* the message of the Error the last step threw, or ""
  emitted,           \* the signals the last step emitted, in order
  issued             \* the connector and registry calls the last step started

objVars     == <<isDisposedObj, injectedProperty, nameProperty>>
trackerVars == <<_instances, _current, _isDisposed, slots>>
restoreVars == <<_hasRestored, _restore, _restored, restorePc, listState,
                 whenPending, saved, entry, execCnt, removeCnt>>
widgetVars  == <<connected, focusConnected, w_isDisposed,
                 focusWidgets, focusCurrent>>
vars == <<objVars, trackerVars, restoreVars, widgetVars, store, pending,
          thrown, emitted, issued>>

----------------------------------------------------------------------------
(* Bounds *)

\* the most add / save calls suspended on the connector at one time
MaxPending == 2
\* the most gating conditions a restore call is given in `when`
MaxWhen == 1

Objs     == {"w1", "w2"}
Null     == "null"
ObjNames == {"", "a", "b"}     \* what options.name(obj) may return

----------------------------------------------------------------------------
(* The collaborators' data *)

namespace == "nb"

\* `${this.namespace}:${objName}`
Key(objName) == namespace \o ":" \o objName

\* a name of an earlier session that no instance has any more
StaleNames == {"c"}

Keys == {Key(n) : n \in (ObjNames \ {""}) \cup StaleNames}

\* this._restore.args(obj)
Args(obj) == "args:" \o obj

\* A persisted value: no entry, an entry whose value is undefined, an entry
\* without a data payload, or an entry with data.
Absent  == "absent"
NoValue == "undefined"
NoData  == "nodata"
Values  == {Absent, NoValue, NoData, "d0"} \cup {Args(o) : o \in Objs}

\* restore options: the command and the number of conditions in `when`
\* (0: `when` is not given)
Options == [command : {"open"}, nWhen : 0 .. MaxWhen]

\* the messages of the errors add and restore throw
DisposedWarning == "A disposed object cannot be added."
ExistsWarning   == "This object already exists in the tracker."
RestoredError   == "Instance tracker has already restored"

\* this._restore = null
NoOptions == [command |-> Null, nWhen |-> 0]

\* the order in which connector.list returns the ids
KeyOrder == <<Key("a"), Key("b"), Key("c")>>

----------------------------------------------------------------------------
(* Signals.  An emit is recorded as <<signal, argument>>; the slots a       *)
(* WidgetTracker connected run synchronously inside the emit.               *)

Emit(signal, arg) == << <<signal, arg>> >>

\* WidgetTracker's relays of `added` and `updated`
OnAdded(conn, widget) ==
  IF conn THEN Emit("widgetAdded", widget) ELSE <<>>

OnUpdated(conn, widget) ==
  IF conn THEN Emit("widgetUpdated", widget) ELSE <<>>

RECURSIVE CurrentSetter(_, _, _, _, _)
RECURSIVE OnCurrentChanged(_, _, _, _, _)

\* a setter without the check that obj is tracked
CurrentSetter_AcceptsAny(cur, inst, obj, conn, fcur) ==
  IF cur = obj
    THEN [current |-> cur, emitted |-> <<>>]
    ELSE [current |-> obj, emitted |-> Emit("currentChanged", obj)]

\* set current(obj), on a tracker whose current is cur and set is inst;
\* conn: the WidgetTracker's slots are connected, fcur: focus.currentWidget.
\* The result is the new current and the signals emitted.
CurrentSetter(cur, inst, obj, conn, fcur) ==
  IF cur = obj
    THEN [current |-> cur, emitted |-> <<>>]
    ELSE IF obj \in inst
      THEN LET heard == OnCurrentChanged(obj, inst, obj, conn, fcur)
           IN  [current |-> heard.current,
                emitted |-> Emit("currentChanged", obj) \o heard.emitted]
      ELSE [current |-> cur, emitted |-> <<>>]

\* the slot WidgetTracker connects to instances.currentChanged
OnCurrentChanged(cur, inst, widget, conn, fcur) ==
  IF ~conn
    THEN [current |-> cur, emitted |-> <<>>]
    ELSE IF widget = Null /\ fcur # Null
      THEN CurrentSetter(cur, inst, fcur, conn, fcur)
      ELSE [current |-> cur, emitted |-> Emit("wCurrentChanged", widget)]

\* a focus handler that follows the focus only while nothing is current
OnFocusChanged_OnlyWhenNull(cur, inst, newValue, conn, fconn) ==
  IF fconn /\ cur = Null
    THEN CurrentSetter(cur, inst, newValue, conn, newValue)
    ELSE [current |-> cur, emitted |-> <<>>]

\* the slot WidgetTracker connects to focus.currentChanged
OnFocusChanged(cur, inst, newValue, conn, fconn) ==
  IF fconn /\ newValue # cur
    THEN CurrentSetter(cur, inst, newValue, conn, newValue)
    ELSE [current |-> cur, emitted |-> <<>>]

\* _onInstanceDisposed that leaves current alone
OnInstanceDisposed_KeepsCurrent(cur, inst, obj, conn, fcur) ==
  [instances |-> inst \ {obj}, current |-> cur, emitted |-> <<>>]

\* _onInstanceDisposed that emits currentChanged for every disposal
OnInstanceDisposed_AlwaysEmits(cur, inst, obj, conn, fcur) ==
  [instances |-> inst \ {obj},
   current |-> IF obj = cur THEN Null ELSE cur,
   emitted |-> Emit("currentChanged", IF obj = cur THEN Null ELSE cur)]

\* _onInstanceDisposed, its part on the set and on current
OnInstanceDisposed(cur, inst, obj, conn, fcur) ==
  LET rest == inst \ {obj}
  IN  IF obj = cur
        THEN LET heard == OnCurrentChanged(Null, rest, Null, conn, fcur)
             IN  [instances |-> rest, current |-> heard.current,
                  emitted |-> Emit("currentChanged", Null) \o heard.emitted]
        ELSE [instances |-> rest, current |-> cur, emitted |-> <<>>]

\* _onInstanceDisposed that does not look at the injected tag
DisposedRemoves_IgnoresInjected(obj, injected, restore, name) ==
  IF restore = NoOptions THEN {}
  ELSE IF name # "" THEN {name}
  ELSE {}

\* _onInstanceDisposed, its part on the connector: the keys it removes
DisposedRemoves(obj, injected, restore, name) ==
  IF injected THEN {}
  ELSE IF restore = NoOptions THEN {}
  ELSE IF name # "" THEN {name}
  ELSE {}

----------------------------------------------------------------------------
(* Suspended calls *)

\* A suspended call: the connector operation it awaits (or "tick", the
\* resumption of a caller whose awaited promise has resolved), its caller
\* and the locals it holds.  n tells identical suspended calls apart.
CallOf(n, op, key, caller, obj, oldName, newName) ==
  [n |-> n, op |-> op, key |-> key, caller |-> caller, obj |-> obj,
   oldName |-> oldName, newName |-> newName]

Alike(p, q) ==
  /\ p.op = q.op /\ p.key = q.key /\ p.caller = q.caller /\ p.obj = q.obj
  /\ p.oldName = q.oldName /\ p.newName = q.newName

\* the call as it joins the calls in `calls`
Call(calls, op, key, caller, obj, oldName, newName) ==
  LET c == CallOf(1, op, key, caller, obj, oldName, newName)
  IN  [c EXCEPT !.n = 1 + Cardinality({q \in calls : Alike(q, c)})]

\* of identical suspended calls, the one taken to settle first
Latest(p) == \A q \in pending : Alike(p, q) => q.n <= p.n

\* the add and save calls that are suspended
Suspended == {p \in pending : p.caller # "disposed"}

\* whether one more call may suspend
CanSuspend == Cardinality(Suspended) < MaxPending

\* signal.connect(slot) and Signal.clearData(receiver), on obj.disposed
Connect(conns, receiver) ==
  IF \E i \in 1 .. Len(conns) : conns[i] = receiver
    THEN conns
    ELSE Append(conns, receiver)

Disconnect(conns, receiver) == SelectSeq(conns, LAMBDA r : r # receiver)

Connected(conns, receiver) == \E i \in 1 .. Len(conns) : conns[i] = receiver



----------------------------------------------------------------------------
(* InstanceTracker *)

\* the state a constructor leaves, but for the connector's store and the
\* WidgetTracker's connections
Constructed ==
  /\ isDisposedObj = [o \in Objs |-> FALSE]
  /\ injectedProperty = [o \in Objs |-> FALSE]
  /\ nameProperty = [o \in Objs |-> ""]
  /\ _instances = {}
  /\ _current = Null
  /\ _hasRestored = FALSE
  /\ _restore = NoOptions
  /\ _isDisposed = FALSE
  /\ _restored = FALSE
  /\ slots = [o \in Objs |-> <<>>]
  /\ pending = {}
  /\ restorePc = "idle"
  /\ listState = "none"
  /\ whenPending = {}
  /\ saved = [k \in Keys |-> Absent]
  /\ entry = [k \in Keys |-> "none"]
  /\ execCnt = [k \in Keys |-> 0]
  /\ removeCnt = [k \in Keys |-> 0]
  /\ w_isDisposed = FALSE
  /\ focusWidgets = {}
  /\ focusCurrent = Null
  /\ thrown = ""
  /\ emitted = <<>>
  /\ issued = <<>>

\* new InstanceTracker(options), over an empty store
Init ==
  /\ Constructed
  /\ store = [k \in Keys |-> Absent]
  /\ connected = FALSE
  /\ focusConnected = FALSE

\* add that refuses only a disposed object
AddRefused_OnlyDisposed(obj) == isDisposedObj[obj]

\* the two checks add opens with: whether add throws
AddRefused(obj) == isDisposedObj[obj] \/ obj \in _instances

\* add(obj), up to its await.  objName is what this._restore.name(obj)
\* returns, injected what Private.injectedProperty.get(obj) returns, and
\* caller tells InstanceTracker.add ("add", "inject") from the add that
\* WidgetTracker.add awaits ("wadd").  conns are the slots and before the
\* signals emitted when add is entered.
AddBody(obj, objName, injected, caller, conns, before) ==
  IF AddRefused(obj)
    THEN /\ thrown' = IF isDisposedObj[obj] THEN DisposedWarning
                                            ELSE ExistsWarning
         /\ emitted' = before
         /\ issued' = <<>>
         /\ slots' = conns
         /\ UNCHANGED <<_instances, nameProperty, pending>>
    ELSE /\ _instances' = _instances \cup {obj}
         /\ slots' = [conns EXCEPT ![obj] = Connect(@, "tracker")]
         /\ IF injected
              THEN /\ emitted' = before
                   /\ issued' = <<>>
                   /\ UNCHANGED nameProperty
                   /\ IF caller = "wadd"
                        THEN /\ CanSuspend
                             /\ pending' = pending \cup
                                  {Call(pending, "tick", "", caller, obj, "", "")}
                        ELSE UNCHANGED pending
                   /\ thrown' = ""
              ELSE IF _restore # NoOptions /\ objName # ""
                THEN /\ CanSuspend
                     /\ nameProperty' = [nameProperty EXCEPT ![obj] = Key(objName)]
                     /\ pending' = pending \cup
                          {Call(pending, "save", Key(objName), caller, obj, "", "")}
                     /\ issued' = << <<"save", Key(objName), Args(obj)>> >>
                     /\ emitted' = before
                     /\ thrown' = ""
                ELSE /\ emitted' = before \o Emit("added", obj)
                                      \o OnAdded(connected, obj)
                     /\ issued' = <<>>
                     /\ UNCHANGED nameProperty
                     /\ IF caller = "wadd"
                          THEN /\ CanSuspend
                               /\ pending' = pending \cup
                                    {Call(pending, "tick", "", caller, obj, "", "")}
                          ELSE UNCHANGED pending
                     /\ thrown' = ""

Add(obj, objName) ==
  /\ AddBody(obj, objName, injectedProperty[obj], "add", slots, <<>>)
  /\ UNCHANGED <<isDisposedObj, injectedProperty, _current, _isDisposed,
                 restoreVars, widgetVars, store>>

Inject(obj) ==
  /\ injectedProperty' = [injectedProperty EXCEPT ![obj] = TRUE]
  /\ AddBody(obj, "", TRUE, "inject", slots, <<>>)
  /\ UNCHANGED <<isDisposedObj, _current, _isDisposed,
                 restoreVars, widgetVars, store>>

\* an add that emits `added` however its connector.save settles
AddSettle_AnnouncesFailure(p, ok) ==
  /\ p \in pending /\ p.op = "save" /\ p.caller \in {"add", "wadd"}
  /\ Latest(p)
  /\ store' = IF ok THEN [store EXCEPT ![p.key] = Args(p.obj)] ELSE store
  /\ emitted' = Emit("added", p.obj) \o OnAdded(connected, p.obj)
  /\ pending' = pending \ {p}
  /\ thrown' = ""
  /\ issued' = <<>>
  /\ UNCHANGED <<objVars, trackerVars, restoreVars, widgetVars>>

\* connector.save of an add settles; the add resumes after its await
AddSettle(p, ok) ==
  /\ p \in pending /\ p.op = "save" /\ p.caller \in {"add", "wadd"}
  /\ Latest(p)
  /\ IF ok
       THEN /\ store' = [store EXCEPT ![p.key] = Args(p.obj)]
            /\ emitted' = Emit("added", p.obj) \o OnAdded(connected, p.obj)
            /\ pending' = IF p.caller = "wadd"
                 THEN (pending \ {p}) \cup
                        {Call(pending \ {p}, "tick", "", p.caller, p.obj, "", "")}
                 ELSE pending \ {p}
            /\ thrown' = ""
       ELSE /\ emitted' = <<>>
            /\ pending' = pending \ {p}
            /\ thrown' = ""
            /\ UNCHANGED store
  /\ issued' = <<>>
  /\ UNCHANGED <<objVars, trackerVars, restoreVars, widgetVars>>

\* set current(obj)
SetCurrent(obj) ==
  LET r == CurrentSetter(_current, _instances, obj, connected, focusCurrent)
  IN  /\ _current' = r.current
      /\ emitted' = r.emitted
      /\ issued' = <<>>
      /\ thrown' = ""
      /\ UNCHANGED <<objVars, _instances, _isDisposed, slots, restoreVars,
                     widgetVars, store, pending>>

\* a dispose without its isDisposed check
DisposeBody_Unguarded(conns) ==
  /\ _current' = Null
  /\ _instances' = {}
  /\ _isDisposed' = TRUE
  /\ slots' = [o \in Objs |-> Disconnect(conns[o], "tracker")]
  /\ connected' = FALSE

\* dispose(); conns are the slots when it is entered
DisposeBody(conns) ==
  IF _isDisposed
    THEN /\ slots' = conns
         /\ UNCHANGED <<_current, _instances, _isDisposed, connected>>
    ELSE /\ _current' = Null
         /\ _instances' = {}
         /\ _isDisposed' = TRUE
         /\ slots' = [o \in Objs |-> Disconnect(conns[o], "tracker")]
         /\ connected' = FALSE

Dispose ==
  /\ DisposeBody(slots)
  /\ thrown' = ""
  /\ emitted' = <<>>
  /\ issued' = <<>>
  /\ UNCHANGED <<objVars, restoreVars, focusConnected, w_isDisposed,
                 focusWidgets, focusCurrent, store, pending>>

\* const newName = objName ? `${this.namespace}:${objName}` : ''
NewNameOf(objName) == IF objName # "" THEN Key(objName) ELSE ""

\* a save that emits `updated` whether or not the name changed
UpdatedEmitted_Always(conn, obj, oldName, newName) ==
  Emit("updated", obj) \o OnUpdated(conn, obj)

\* if (oldName !== newName) { this._updated.emit(obj); }
UpdatedEmitted(conn, obj, oldName, newName) ==
  IF oldName # newName
    THEN Emit("updated", obj) \o OnUpdated(conn, obj)
    ELSE <<>>

\* save(obj), from `Private.nameProperty.set(obj, newName)` on; others are
\* the other suspended calls
SaveWrite(others, obj, oldName, newName) ==
  /\ nameProperty' = [nameProperty EXCEPT ![obj] = newName]
  /\ IF newName # ""
       THEN /\ pending' = others \cup
                 {Call(others, "save", newName, "save", obj, oldName, newName)}
            /\ issued' = << <<"save", newName, Args(obj)>> >>
            /\ emitted' = <<>>
            /\ thrown' = ""
       ELSE /\ pending' = others
            /\ issued' = <<>>
            /\ emitted' = UpdatedEmitted(connected, obj, oldName, newName)
            /\ thrown' = ""

\* save(obj), up to its first await; objName is what this._restore.name(obj)
\* returns
Save(obj, objName) ==
  /\ IF _restore = NoOptions \/ obj \notin _instances \/ injectedProperty[obj]
       THEN /\ thrown' = ""
            /\ emitted' = <<>>
            /\ issued' = <<>>
            /\ UNCHANGED <<nameProperty, pending>>
       ELSE LET oldName == nameProperty[obj]
                newName == NewNameOf(objName)
            IN  IF oldName # "" /\ oldName # newName
                  THEN /\ CanSuspend
                       /\ pending' = pending \cup
                            {Call(pending, "remove", oldName, "save", obj,
                                  oldName, newName)}
                       /\ issued' = << <<"remove", oldName, "">> >>
                       /\ emitted' = <<>>
                       /\ thrown' = ""
                       /\ UNCHANGED nameProperty
                  ELSE /\ newName # "" => CanSuspend
                       /\ SaveWrite(pending, obj, oldName, newName)
  /\ UNCHANGED <<isDisposedObj, injectedProperty, trackerVars, restoreVars,
                 widgetVars, store>>

\* connector.remove(oldName) of a save settles
SaveRemoveSettle(p, ok) ==
  /\ p \in pending /\ p.op = "remove" /\ p.caller = "save"
  /\ Latest(p)
  /\ IF ok
       THEN /\ store' = [store EXCEPT ![p.key] = Absent]
            /\ SaveWrite(pending \ {p}, p.obj, p.oldName, p.newName)
       ELSE /\ pending' = pending \ {p}
            /\ emitted' = <<>>
            /\ issued' = <<>>
            /\ thrown' = ""
            /\ UNCHANGED <<store, nameProperty>>
  /\ UNCHANGED <<isDisposedObj, injectedProperty, trackerVars, restoreVars,
                 widgetVars>>

\* connector.save(newName, { data }) of a save settles
SaveSaveSettle(p, ok) ==
  /\ p \in pending /\ p.op = "save" /\ p.caller = "save"
  /\ Latest(p)
  /\ pending' = pending \ {p}
  /\ issued' = <<>>
  /\ IF ok
       THEN /\ store' = [store EXCEPT ![p.key] = Args(p.obj)]
            /\ emitted' = UpdatedEmitted(connected, p.obj, p.oldName,
                                          p.newName)
            /\ thrown' = ""
       ELSE /\ emitted' = <<>>
            /\ thrown' = ""
            /\ UNCHANGED store
  /\ UNCHANGED <<objVars, trackerVars, restoreVars, widgetVars>>

\* FocusTracker's slot on widget.disposed: the widget leaves the focus
\* tracker; when it was the current widget, prev becomes current and
\* focus.currentChanged is emitted.  st is the state the slots act on.
FocusOnDisposed(st, obj, prev) ==
  IF st.focusCurrent # obj
    THEN [st EXCEPT !.focusWidgets = @ \ {obj}]
    ELSE LET r == OnFocusChanged(st.current, st.instances, prev,
                                 connected, focusConnected)
         IN  [st EXCEPT !.focusWidgets = @ \ {obj},
                        !.focusCurrent = prev,
                        !.current = r.current,
                        !.emitted = @ \o r.emitted]

\* InstanceTracker's slot on obj.disposed
TrackerOnDisposed(st, obj) ==
  LET r == OnInstanceDisposed(st.current, st.instances, obj, connected,
                              st.focusCurrent)
  IN  [st EXCEPT !.instances = r.instances,
                 !.current = r.current,
                 !.emitted = @ \o r.emitted,
                 !.removes = DisposedRemoves(obj, injectedProperty[obj],
                                             _restore, nameProperty[obj])]

RunSlot(receiver, st, obj, prev) ==
  IF receiver = "focus" THEN FocusOnDisposed(st, obj, prev)
  ELSE TrackerOnDisposed(st, obj)

\* obj.dispose(): the object emits `disposed` once, to its slots in
\* connection order, and then drops them
DisposeInstance(obj, prev) ==
  /\ ~isDisposedObj[obj]
  /\ prev \in (focusWidgets \ {obj}) \cup {Null}
  /\ focusCurrent # obj => prev = Null
  /\ LET st0 == [instances |-> _instances, current |-> _current,
                 focusWidgets |-> focusWidgets, focusCurrent |-> focusCurrent,
                 emitted |-> <<>>, removes |-> {}]
         st1 == IF Len(slots[obj]) >= 1
                  THEN RunSlot(slots[obj][1], st0, obj, prev) ELSE st0
         st2 == IF Len(slots[obj]) >= 2
                  THEN RunSlot(slots[obj][2], st1, obj, prev) ELSE st1
     IN  /\ _instances' = st2.instances
         /\ _current' = st2.current
         /\ focusWidgets' = st2.focusWidgets
         /\ focusCurrent' = st2.focusCurrent
         /\ emitted' = st2.emitted
         /\ pending' = pending \cup
              {Call(pending, "remove", k, "disposed", obj, "", "") : k \in st2.removes}
         /\ issued' = IF st2.removes = {} THEN <<>>
              ELSE << <<"remove", nameProperty[obj], "">> >>
  /\ isDisposedObj' = [isDisposedObj EXCEPT ![obj] = TRUE]
  /\ slots' = [slots EXCEPT ![obj] = <<>>]
  /\ thrown' = ""
  /\ UNCHANGED <<injectedProperty, nameProperty, _isDisposed, restoreVars,
                 connected, focusConnected, w_isDisposed, store>>

\* the `void connector.remove(name)` of _onInstanceDisposed settles
DisposedRemoveSettle(p, ok) ==
  /\ p \in pending /\ p.op = "remove" /\ p.caller = "disposed"
  /\ pending' = pending \ {p}
  /\ store' = IF ok THEN [store EXCEPT ![p.key] = Absent] ELSE store
  /\ emitted' = <<>>
  /\ issued' = <<>>
  /\ thrown' = ""
  /\ UNCHANGED <<objVars, trackerVars, restoreVars, widgetVars>>

----------------------------------------------------------------------------
(* WidgetTracker *)

\* this._focusTracker.add(widget); focused: the widget holds the focus when
\* it is added, and the FocusTracker makes it its current widget.  The
\* result is the FocusTracker's state, the slots, and what its
\* currentChanged signal made of the InstanceTracker's current.
FocusAdd(widget, focused) ==
  IF widget \in focusWidgets
    THEN [focusWidgets |-> focusWidgets, focusCurrent |-> focusCurrent,
          slots |-> slots, current |-> _current, emitted |-> <<>>]
    ELSE IF focused /\ focusCurrent # widget
      THEN LET r == OnFocusChanged(_current, _instances, widget,
                                   connected, focusConnected)
           IN  [focusWidgets |-> focusWidgets \cup {widget},
                focusCurrent |-> widget,
                slots |-> [slots EXCEPT ![widget] = Connect(@, "focus")],
                current |-> r.current, emitted |-> r.emitted]
      ELSE [focusWidgets |-> focusWidgets \cup {widget},
            focusCurrent |-> focusCurrent,
            slots |-> [slots EXCEPT ![widget] = Connect(@, "focus")],
            current |-> _current, emitted |-> <<>>]

\* WidgetTracker.add(widget), up to its await
WAdd(widget, objName, focused) ==
  /\ focused => ~isDisposedObj[widget]
  /\ LET f == FocusAdd(widget, focused)
     IN  /\ focusWidgets' = f.focusWidgets
         /\ focusCurrent' = f.focusCurrent
         /\ _current' = f.current
         /\ AddBody(widget, objName, injectedProperty[widget], "wadd",
                    f.slots, f.emitted)
  /\ UNCHANGED <<isDisposedObj, injectedProperty, _isDisposed, restoreVars,
                 connected, focusConnected, w_isDisposed, store>>

\* an add that leaves current to the widget that holds the focus
Tick_DefersToFocus(p) ==
  /\ p \in pending /\ p.op = "tick"
  /\ Latest(p)
  /\ LET r == IF focusCurrent = Null
                THEN CurrentSetter(_current, _instances, p.obj, connected,
                                   focusCurrent)
                ELSE [current |-> _current, emitted |-> <<>>]
     IN  /\ _current' = r.current
         /\ emitted' = r.emitted
  /\ pending' = pending \ {p}
  /\ issued' = <<>>
  /\ thrown' = ""
  /\ UNCHANGED <<objVars, _instances, _isDisposed, slots, restoreVars,
                 widgetVars, store>>

\* WidgetTracker.add(widget) resumes: this._instanceTracker.current = widget
Tick(p) ==
  /\ p \in pending /\ p.op = "tick"
  /\ Latest(p)
  /\ LET r == CurrentSetter(_current, _instances, p.obj, connected,
                            focusCurrent)
     IN  /\ _current' = r.current
         /\ emitted' = r.emitted
  /\ pending' = pending \ {p}
  /\ issued' = <<>>
  /\ thrown' = ""
  /\ UNCHANGED <<objVars, _instances, _isDisposed, slots, restoreVars,
                 widgetVars, store>>

\* a tracked widget takes the focus: focus.currentChanged is emitted
FocusChange(widget) ==
  /\ widget \in focusWidgets
  /\ ~isDisposedObj[widget]
  /\ widget # focusCurrent
  /\ focusCurrent' = widget
  /\ LET r == OnFocusChanged(_current, _instances, widget, connected,
                             focusConnected)
     IN  /\ _current' = r.current
         /\ emitted' = r.emitted
  /\ issued' = <<>>
  /\ thrown' = ""
  /\ UNCHANGED <<objVars, _instances, _isDisposed, slots, restoreVars,
                 connected, focusConnected, w_isDisposed, focusWidgets,
                 store, pending>>

\* WidgetTracker.dispose()
WDispose ==
  /\ IF w_isDisposed
       THEN UNCHANGED <<trackerVars, widgetVars>>
       ELSE /\ w_isDisposed' = TRUE
            /\ DisposeBody([o \in Objs |-> Disconnect(slots[o], "focus")])
            /\ focusWidgets' = {}
            /\ focusCurrent' = Null
            /\ focusConnected' = FALSE
  /\ thrown' = ""
  /\ emitted' = <<>>
  /\ issued' = <<>>
  /\ UNCHANGED <<objVars, restoreVars, store, pending>>

----------------------------------------------------------------------------
(* restore *)

\* saved.ids of the listing, in the connector's order
ListIds(listing) == SelectSeq(KeyOrder, LAMBDA k : listing[k] # Absent)

\* an args that looks at the value only, not at its data
ArgsUndefined_ValueOnly(value) == value = NoValue

\* const args = value && (value as any).data: TRUE when args === undefined
ArgsUndefined(value) == value \in {NoValue, NoData}

\* what the map callback starts for the entry id
EntryStart(listing, id) ==
  IF ArgsUndefined(listing[id]) THEN "removeNoData" ELSE "exec"

EntryIssue(command, listing, id) ==
  IF ArgsUndefined(listing[id])
    THEN <<"remove", id, "">>
    ELSE <<"execute", command, listing[id]>>

RECURSIVE BatchIssued(_, _, _)
BatchIssued(command, listing, ids) ==
  IF ids = <<>> THEN <<>>
  ELSE <<EntryIssue(command, listing, Head(ids))>>
         \o BatchIssued(command, listing, Tail(ids))

\* saved.ids.map(...): every entry's operation is started
StartBatch(listing) ==
  /\ restorePc' = "batch"
  /\ entry' = [k \in Keys |->
       IF listing[k] # Absent THEN EntryStart(listing, k) ELSE entry[k]]
  /\ execCnt' = [k \in Keys |->
       IF listing[k] # Absent /\ EntryStart(listing, k) = "exec"
         THEN execCnt[k] + 1 ELSE execCnt[k]]
  /\ removeCnt' = [k \in Keys |->
       IF listing[k] # Absent /\ EntryStart(listing, k) = "removeNoData"
         THEN removeCnt[k] + 1 ELSE removeCnt[k]]
  /\ issued' = BatchIssued(_restore.command, listing, ListIds(listing))

\* a check on the `restored` promise instead of the flag
RestoreRefused_WhenResolved == _restored

\* whether restore throws
RestoreRefused == _hasRestored

\* restore(options), up to `await Promise.all(promises)`
Restore(options) ==
  /\ IF RestoreRefused
       THEN /\ thrown' = RestoredError
            /\ issued' = <<>>
            /\ UNCHANGED restoreVars
       ELSE /\ _hasRestored' = TRUE
            /\ _restore' = options
            /\ listState' = "pending"
            /\ whenPending' = 1 .. options.nWhen
            /\ restorePc' = "gate"
            /\ issued' = << <<"list", namespace, "">> >>
            /\ thrown' = ""
            /\ UNCHANGED <<_restored, saved, entry, execCnt, removeCnt>>
  /\ emitted' = <<>>
  /\ UNCHANGED <<objVars, trackerVars, widgetVars, store, pending>>

\* a restore that awaits the listing only
ListSettle_IgnoresWhen(ok) ==
  /\ listState = "pending"
  /\ IF ok
       THEN /\ listState' = "ok"
            /\ saved' = store
            /\ IF restorePc = "gate"
                 THEN StartBatch(store)
                 ELSE /\ issued' = <<>>
                      /\ UNCHANGED <<restorePc, entry, execCnt, removeCnt>>
       ELSE /\ listState' = "fail"
            /\ restorePc' = IF restorePc = "gate" THEN "failed" ELSE restorePc
            /\ issued' = <<>>
            /\ UNCHANGED <<saved, entry, execCnt, removeCnt>>
  /\ thrown' = ""
  /\ emitted' = <<>>
  /\ UNCHANGED <<objVars, trackerVars, widgetVars, store, pending,
                 _hasRestored, _restore, _restored, whenPending>>

\* connector.list(namespace) settles
ListSettle(ok) ==
  /\ listState = "pending"
  /\ IF ok
       THEN /\ listState' = "ok"
            /\ saved' = store
            /\ IF restorePc = "gate" /\ whenPending = {}
                 THEN StartBatch(store)
                 ELSE /\ issued' = <<>>
                      /\ UNCHANGED <<restorePc, entry, execCnt, removeCnt>>
       ELSE /\ listState' = "fail"
            /\ restorePc' = IF restorePc = "gate" THEN "failed" ELSE restorePc
            /\ issued' = <<>>
            /\ UNCHANGED <<saved, entry, execCnt, removeCnt>>
  /\ thrown' = ""
  /\ emitted' = <<>>
  /\ UNCHANGED <<objVars, trackerVars, widgetVars, store, pending,
                 _hasRestored, _restore, _restored, whenPending>>

\* a condition of `when` settles
WhenSettle(i, ok) ==
  /\ i \in whenPending
  /\ whenPending' = whenPending \ {i}
  /\ IF ok
       THEN IF restorePc = "gate" /\ listState = "ok" /\ whenPending' = {}
              THEN StartBatch(saved)
              ELSE /\ issued' = <<>>
                   /\ UNCHANGED <<restorePc, entry, execCnt, removeCnt>>
       ELSE /\ restorePc' = IF restorePc = "gate" THEN "failed" ELSE restorePc
            /\ issued' = <<>>
            /\ UNCHANGED <<entry, execCnt, removeCnt>>
  /\ thrown' = ""
  /\ emitted' = <<>>
  /\ UNCHANGED <<objVars, trackerVars, widgetVars, store, pending,
                 _hasRestored, _restore, _restored, listState, saved>>

\* registry.execute(command, args) of an entry settles;
\* .catch(() => connector.remove(id))
ExecSettle(id, ok) ==
  /\ entry[id] = "exec"
  /\ IF ok
       THEN /\ entry' = [entry EXCEPT ![id] = "executed"]
            /\ issued' = <<>>
            /\ UNCHANGED removeCnt
       ELSE /\ entry' = [entry EXCEPT ![id] = "removeStale"]
            /\ removeCnt' = [removeCnt EXCEPT ![id] = @ + 1]
            /\ issued' = << <<"remove", id, "">> >>
  /\ thrown' = ""
  /\ emitted' = <<>>
  /\ UNCHANGED <<objVars, trackerVars, widgetVars, store, pending,
                 _hasRestored, _restore, _restored, restorePc, listState,
                 whenPending, saved, execCnt>>

\* connector.remove(id) of an entry settles; a rejection rejects the
\* Promise.all over the entries, and with it the restore call
EntryRemoveSettle(id, ok) ==
  /\ entry[id] \in {"removeNoData", "removeStale"}
  /\ IF ok
       THEN /\ store' = [store EXCEPT ![id] = Absent]
            /\ entry' = [entry EXCEPT ![id] =
                 IF @ = "removeNoData" THEN "removedNoData" ELSE "removedStale"]
            /\ UNCHANGED restorePc
       ELSE /\ entry' = [entry EXCEPT ![id] =
                 IF @ = "removeNoData" THEN "failedNoData" ELSE "failedStale"]
            /\ restorePc' = IF restorePc = "batch" THEN "failed" ELSE restorePc
            /\ UNCHANGED store
  /\ thrown' = ""
  /\ emitted' = <<>>
  /\ issued' = <<>>
  /\ UNCHANGED <<objVars, trackerVars, widgetVars, pending,
                 _hasRestored, _restore, _restored, listState,
                 whenPending, saved, execCnt, removeCnt>>

EntrySettled(id) ==
  entry[id] \in {"executed", "removedNoData", "removedStale"}

\* the Promise.all over the entries resolves: this._restored.resolve()
RestoreFinish ==
  /\ restorePc = "batch"
  /\ \A k \in Keys : saved[k] # Absent => EntrySettled(k)
  /\ restorePc' = "done"
  /\ _restored' = TRUE
  /\ thrown' = ""
  /\ emitted' = <<>>
  /\ issued' = <<>>
  /\ UNCHANGED <<objVars, trackerVars, widgetVars, store, pending,
                 _hasRestored, _restore, listState, whenPending, saved,
                 entry, execCnt, removeCnt>>

----------------------------------------------------------------------------
(* Specifications *)

\* The InstanceTracker and the calls suspended on the connector.  restore
\* is called without `when`, and its listing stays outstanding.
TrackerNames == {"", "a"}

Next ==
  \/ \E o \in Objs, n \in TrackerNames : Add(o, n)
  \/ \E o \in Objs : Inject(o)
  \/ \E p \in pending, ok \in BOOLEAN : AddSettle(p, ok)
  \/ \E o \in Objs \cup {Null} : SetCurrent(o)
  \/ Dispose
  \/ \E o \in Objs, n \in TrackerNames : Save(o, n)
  \/ \E p \in pending, ok \in BOOLEAN : SaveRemoveSettle(p, ok)
  \/ \E p \in pending, ok \in BOOLEAN : SaveSaveSettle(p, ok)
  \/ \E o \in Objs : DisposeInstance(o, Null)
  \/ \E p \in pending, ok \in BOOLEAN : DisposedRemoveSettle(p, ok)
  \/ \E opts \in {x \in Options : x.nWhen = 0} : Restore(opts)

Spec == Init /\ [][Next]_vars

\* One instance, saved under every name, with the calls on it overlapping.
SaveObjs == {"w1"}

NextSave ==
  \/ \E o \in SaveObjs, n \in ObjNames : Add(o, n)
  \/ \E p \in pending, ok \in BOOLEAN : AddSettle(p, ok)
  \/ \E o \in SaveObjs, n \in ObjNames : Save(o, n)
  \/ \E p \in pending, ok \in BOOLEAN : SaveRemoveSettle(p, ok)
  \/ \E p \in pending, ok \in BOOLEAN : SaveSaveSettle(p, ok)
  \/ \E o \in SaveObjs : DisposeInstance(o, Null)
  \/ \E p \in pending, ok \in BOOLEAN : DisposedRemoveSettle(p, ok)
  \/ \E opts \in {x \in Options : x.nWhen = 0} : Restore(opts)

SpecSave == Init /\ [][NextSave]_vars

\* The same calls over a connector that never rejects, and that completes
\* the removal of a key only when no save of that key is outstanding.
NoSaveOutstanding(key) ==
  \A q \in pending : q.op = "save" => q.key # key

NextSaveOk ==
  \/ \E o \in SaveObjs, n \in ObjNames : Add(o, n)
  \/ \E p \in pending : AddSettle(p, TRUE)
  \/ \E o \in SaveObjs, n \in ObjNames : Save(o, n)
  \/ \E p \in pending : NoSaveOutstanding(p.key) /\ SaveRemoveSettle(p, TRUE)
  \/ \E p \in pending : SaveSaveSettle(p, TRUE)
  \/ \E o \in SaveObjs : DisposeInstance(o, Null)
  \/ \E p \in pending :
       NoSaveOutstanding(p.key) /\ DisposedRemoveSettle(p, TRUE)
  \/ \E opts \in {x \in Options : x.nWhen = 0} : Restore(opts)

SpecSaveOk == Init /\ [][NextSaveOk]_vars

\* inject(obj) called on another InstanceTracker of the program.  The
\* attached properties are module-level, one per object for all trackers;
\* that tracker writes the injected tag before its add checks anything.
\* Its own fields are apart from this tracker's and are not kept here.
InjectOther(obj) ==
  /\ injectedProperty' = [injectedProperty EXCEPT ![obj] = TRUE]
  /\ thrown' = IF isDisposedObj[obj] THEN DisposedWarning ELSE ""
  /\ emitted' = <<>>
  /\ issued' = <<>>
  /\ UNCHANGED <<isDisposedObj, nameProperty, trackerVars, restoreVars,
                 widgetVars, store, pending>>

\* A tracker with a restore configuration, and a second tracker into which
\* the instance is injected.
NextShared ==
  \/ \E o \in SaveObjs, n \in ObjNames : Add(o, n)
  \/ \E p \in pending, ok \in BOOLEAN : AddSettle(p, ok)
  \/ \E o \in SaveObjs, n \in ObjNames : Save(o, n)
  \/ \E p \in pending, ok \in BOOLEAN : SaveRemoveSettle(p, ok)
  \/ \E p \in pending, ok \in BOOLEAN : SaveSaveSettle(p, ok)
  \/ \E o \in SaveObjs : DisposeInstance(o, Null)
  \/ \E p \in pending, ok \in BOOLEAN : DisposedRemoveSettle(p, ok)
  \/ \E opts \in {x \in Options : x.nWhen = 0} : Restore(opts)
  \/ \E o \in SaveObjs : InjectOther(o)

SpecShared == Init /\ [][NextShared]_vars

\* restore over a store that holds entries of an earlier session, while one
\* instance is added and disposed.
InitRestore ==
  /\ Constructed
  /\ store \in [Keys -> {Absent, NoValue, NoData, "d0"}]
  /\ connected = FALSE
  /\ focusConnected = FALSE

RestoreObjs == {"w1"}

NextRestore ==
  \/ \E opts \in Options : Restore(opts)
  \/ \E ok \in BOOLEAN : ListSettle(ok)
  \/ \E i \in 1 .. MaxWhen, ok \in BOOLEAN : WhenSettle(i, ok)
  \/ \E k \in Keys, ok \in BOOLEAN : ExecSettle(k, ok)
  \/ \E k \in Keys, ok \in BOOLEAN : EntryRemoveSettle(k, ok)
  \/ RestoreFinish
  \/ \E o \in RestoreObjs : Add(o, "a")
  \/ \E p \in pending, ok \in BOOLEAN : AddSettle(p, ok)
  \/ \E o \in RestoreObjs : DisposeInstance(o, Null)
  \/ \E p \in pending, ok \in BOOLEAN : DisposedRemoveSettle(p, ok)

SpecRestore == InitRestore /\ [][NextRestore]_vars

\* new WidgetTracker(options): the slots of the constructor are connected
InitWidget ==
  /\ Constructed
  /\ store = [k \in Keys |-> Absent]
  /\ connected = TRUE
  /\ focusConnected = TRUE

NextWidget ==
  \/ \E w \in Objs, n \in TrackerNames, focused \in BOOLEAN : WAdd(w, n, focused)
  \/ \E p \in pending : Tick(p)
  \/ \E p \in pending, ok \in BOOLEAN : AddSettle(p, ok)
  \/ \E w \in Objs : Inject(w)
  \/ \E w \in Objs : FocusChange(w)
  \/ \E w \in Objs, prev \in Objs \cup {Null} : DisposeInstance(w, prev)
  \/ \E p \in pending, ok \in BOOLEAN : DisposedRemoveSettle(p, ok)
  \/ WDispose
  \/ \E opts \in {x \in Options : x.nWhen = 0} : Restore(opts)

SpecWidget == InitWidget /\ [][NextWidget]_vars

\* Either tracker, with the operations around its dispose.
InitDispose == Init \/ InitWidget

\* the InstanceTracker is the one a WidgetTracker owns
IsWidget == connected \/ w_isDisposed

NextDispose ==
  \/ \E o \in Objs, n \in TrackerNames : ~IsWidget /\ Add(o, n)
  \/ \E o \in Objs \cup {Null} : ~IsWidget /\ SetCurrent(o)
  \/ ~IsWidget /\ Dispose
  \/ \E w \in Objs, n \in TrackerNames : IsWidget /\ WAdd(w, n, FALSE)
  \/ \E p \in pending : IsWidget /\ Tick(p)
  \/ \E w \in Objs : IsWidget /\ FocusChange(w)
  \/ IsWidget /\ WDispose
  \/ \E p \in pending, ok \in BOOLEAN : AddSettle(p, ok)
  \/ \E w \in Objs, prev \in Objs \cup {Null} : DisposeInstance(w, prev)
  \/ \E p \in pending, ok \in BOOLEAN : DisposedRemoveSettle(p, ok)
  \/ \E opts \in {x \in Options : x.nWhen = 0} : Restore(opts)

SpecDispose == InitDispose /\ [][NextDispose]_vars

----------------------------------------------------------------------------
(* Claims *)

Range(seq) == {seq[i] : i \in 1 .. Len(seq)}

\* C1: in every reachable state of an InstanceTracker, current is null or a
\* member of the tracked set.
C1_CurrentIsTracked == _current = Null \/ _current \in _instances

\* an instance has been disposed while another one is current and a call
\* is suspended on the connector
C1_Witness ==
  /\ \E o \in Objs : isDisposedObj[o]
  /\ _current # Null
  /\ Suspended # {}

\* C2: add(instance) fails when the instance is disposed or already
\* tracked, and the failed call leaves the tracked set and its size
\* unchanged, starts no connector save and emits no "added" signal.
C2_FailedAddChangesNothing ==
  [][\A o \in Objs, n \in TrackerNames :
       (Add(o, n) /\ (isDisposedObj[o] \/ o \in _instances)) =>
         /\ thrown' \in {DisposedWarning, ExistsWarning}
         /\ _instances' = _instances
         /\ Cardinality(_instances') = Cardinality(_instances)
         /\ issued' = <<>>
         /\ pending' = pending
         /\ emitted' = <<>>]_vars

\* an add of a tracked instance has just failed (no inject was ever called)
C2_Witness ==
  /\ thrown = ExistsWarning
  /\ \A o \in Objs : ~injectedProperty[o]
  /\ _instances # {}

\* C3: an instance registered through inject is in the tracked set; the
\* inject emits no "added" signal and starts no connector call, a later
\* save of it is a no-op whatever the restore configuration, and its
\* disposal starts no connector removal.
C3_InjectedIsNeverPersisted ==
  [][/\ \A o \in Objs :
          (Inject(o) /\ ~isDisposedObj[o] /\ o \notin _instances) =>
            /\ thrown' = ""
            /\ o \in _instances'
            /\ emitted' = <<>>
            /\ issued' = <<>>
            /\ pending' = pending
     /\ \A o \in Objs, n \in TrackerNames :
          (Save(o, n) /\ injectedProperty[o]) =>
            /\ emitted' = <<>>
            /\ issued' = <<>>
            /\ UNCHANGED <<nameProperty, pending, store>>
     /\ \A o \in Objs :
          (DisposeInstance(o, Null) /\ injectedProperty[o]) =>
            /\ issued' = <<>>
            /\ pending' = pending]_vars

\* an injected instance is tracked under a restore configuration, nothing
\* is in flight and nothing was persisted
C3_Witness ==
  /\ \E o \in Objs : injectedProperty[o] /\ o \in _instances
  /\ _restore # NoOptions
  /\ pending = {}
  /\ \A k \in Keys : store[k] = Absent

\* C4: every call of restore after the first fails, whether the first is
\* in flight, has completed or has failed; the failing call does not
\* replace the stored configuration and starts no listing, execution or
\* removal.
C4_SecondRestoreFails ==
  [][\A opts \in Options :
       (Restore(opts) /\ _hasRestored) =>
         /\ thrown' = RestoredError
         /\ _restore' = _restore
         /\ issued' = <<>>
         /\ UNCHANGED <<restoreVars, store, pending>>]_vars

\* a second restore has just failed, after the first call had failed
C4_Witness ==
  /\ thrown = RestoredError
  /\ restorePc = "failed"

InFlight(k) == entry[k] \in {"exec", "removeNoData", "removeStale"}

Listed == {k \in Keys : saved[k] # Absent}

\* what an entry's history must be, by the value the listing held for it
C5_EntryHistory(k) ==
  IF entry[k] = "none"
    THEN execCnt[k] = 0 /\ removeCnt[k] = 0
    ELSE IF saved[k] \in {NoValue, NoData}
      THEN /\ entry[k] \in {"removeNoData", "removedNoData", "failedNoData"}
           /\ execCnt[k] = 0
           /\ removeCnt[k] = 1
      ELSE /\ saved[k] # Absent
           /\ execCnt[k] = 1
           /\ IF entry[k] \in {"exec", "executed"}
                THEN removeCnt[k] = 0
                ELSE /\ entry[k] \in {"removeStale", "removedStale", "failedStale"}
                     /\ removeCnt[k] = 1

\* C5: during restore every entry of the listing is processed exactly once
\* and independently: an entry without data gets one connector removal and
\* no execution; an entry with data gets one execution with its stored
\* arguments, followed by a removal if and only if the execution fails;
\* the failure of one entry leaves the other entries' operations alone.
C5_EntriesProcessedOnce ==
  /\ [](\A k \in Keys : C5_EntryHistory(k))
  /\ []((restorePc \in {"batch", "done"} \/ \E k \in Keys : entry[k] # "none")
          => \A k \in Listed : entry[k] # "none")
  /\ [][(restorePc = "gate" /\ restorePc' = "batch") =>
          /\ Len(issued') = Cardinality({k \in Keys : saved'[k] # Absent})
          /\ \A k \in Keys : saved'[k] # Absent =>
               IF saved'[k] \in {NoValue, NoData}
                 THEN <<"remove", k, "">> \in Range(issued')
                 ELSE <<"execute", _restore.command, saved'[k]>>
                        \in Range(issued')]_vars
  /\ [][\A k \in Keys, ok \in BOOLEAN : ExecSettle(k, ok) =>
          /\ issued' = IF ok THEN <<>> ELSE << <<"remove", k, "">> >>
          /\ entry'[k] = IF ok THEN "executed" ELSE "removeStale"
          /\ \A j \in Keys \ {k} : entry'[j] = entry[j]]_vars
  /\ [][\A k \in Keys, ok \in BOOLEAN : EntryRemoveSettle(k, ok) =>
          /\ issued' = <<>>
          /\ \A j \in Keys \ {k} : entry'[j] = entry[j]]_vars

\* three entries: the execution of one failed and its record was removed,
\* one had no data and was removed, one was executed
C5_Witness ==
  /\ entry[Key("a")] = "removedStale"
  /\ entry[Key("b")] = "removedNoData"
  /\ entry[Key("c")] = "executed"
  /\ restorePc = "done"

\* C6: once the listing has resolved, the conditions of `when` have settled
\* and the batch has started and every operation of it has settled, the
\* restore call has not failed, whichever entries failed.
C6_BatchNeverFails ==
  (/\ listState = "ok"
   /\ whenPending = {}
   /\ \E k \in Keys : entry[k] # "none"
   /\ \A k \in Keys : ~InFlight(k))
    => /\ restorePc \in {"batch", "done"}
       /\ restorePc = "done" => _restored

\* C7: when a tracked instance that is current is disposed, it leaves the
\* tracked set, current becomes null and exactly one "current changed"
\* signal is emitted, with null; when a tracked instance that is not
\* current is disposed, current is unchanged and nothing is emitted.
C7_DisposalOfCurrent ==
  [][\A o \in Objs :
       (DisposeInstance(o, Null) /\ o \in _instances) =>
         /\ o \notin _instances'
         /\ _instances' = _instances \ {o}
         /\ IF o = _current
              THEN /\ _current' = Null
                   /\ emitted' = << <<"currentChanged", Null>> >>
              ELSE /\ _current' = _current
                   /\ emitted' = <<>>]_vars

\* the current instance has just been disposed, another one stays tracked
C7_Witness ==
  /\ emitted = << <<"currentChanged", Null>> >>
  /\ _current = Null
  /\ \E o \in Objs : isDisposedObj[o]
  /\ _instances # {}

\* save(obj) goes past its first check
Eligible(o) ==
  _restore # NoOptions /\ o \in _instances /\ ~injectedProperty[o]

\* C8: for a tracked, non-injected instance under a restore configuration,
\* a save whose computed name equals the recorded one emits no "updated"
\* signal; a save whose computed name differs emits exactly one, when it
\* resolves, and starts the connector save under the new key only when the
\* removal of the old key has completed.
C8_SaveAndRename ==
  [][/\ \A o \in SaveObjs, n \in ObjNames :
          (Save(o, n) /\ Eligible(o)) =>
            LET oldName == nameProperty[o]
                newName == IF n = "" THEN "" ELSE Key(n)
            IN  /\ emitted' = <<>>
                /\ (oldName # "" /\ oldName # newName) =>
                     issued' = << <<"remove", oldName, "">> >>
                /\ ((oldName = "" \/ oldName = newName) /\ newName # "") =>
                     issued' = << <<"save", newName, Args(o)>> >>
                /\ (oldName = "" /\ newName = "") => issued' = <<>>
     /\ \A p \in pending, ok \in BOOLEAN :
          SaveRemoveSettle(p, ok) =>
            /\ ok => store'[p.oldName] = Absent
            /\ issued' = IF ok /\ p.newName # ""
                 THEN << <<"save", p.newName, Args(p.obj)>> >> ELSE <<>>
            /\ emitted' = IF ok /\ p.newName = ""
                 THEN << <<"updated", p.obj>> >> ELSE <<>>
     /\ \A p \in pending, ok \in BOOLEAN :
          SaveSaveSettle(p, ok) =>
            /\ issued' = <<>>
            /\ emitted' = IF ok /\ p.oldName # p.newName
                 THEN << <<"updated", p.obj>> >> ELSE <<>>]_vars

\* a rename from a to b: the removal of the old key has completed and the
\* save under the new key has just been started
C8_Witness ==
  /\ issued = << <<"save", Key("b"), Args("w1")>> >>
  /\ store[Key("a")] = Absent
  /\ \E p \in pending :
       /\ p.caller = "save" /\ p.op = "save"
       /\ p.oldName = Key("a") /\ p.newName = Key("b")

Untouched ==
  UNCHANGED <<objVars, trackerVars, restoreVars, widgetVars, store, pending>>

\* C9: dispose() on an InstanceTracker or a WidgetTracker empties the
\* tracked set, sets current to null and marks the tracker disposed; a
\* second dispose() raises no error, changes no state and emits nothing.
C9_DisposeIsIdempotent ==
  [][/\ (Dispose /\ ~IsWidget) =>
          /\ thrown' = ""
          /\ emitted' = <<>>
          /\ IF _isDisposed
               THEN Untouched
               ELSE _instances' = {} /\ _current' = Null /\ _isDisposed'
     /\ (WDispose /\ IsWidget) =>
          /\ thrown' = ""
          /\ emitted' = <<>>
          /\ IF w_isDisposed
               THEN Untouched
               ELSE /\ _instances' = {} /\ _current' = Null
                    /\ _isDisposed' /\ w_isDisposed']_vars

\* a WidgetTracker has been disposed while an add was suspended
C9_Witness ==
  /\ w_isDisposed /\ _isDisposed
  /\ _instances = {} /\ _current = Null
  /\ Suspended # {}
  /\ emitted = <<>>

BeforeTrackerSlot(obj, prev) ==
  LET st0 == [instances |-> _instances, current |-> _current,
              focusWidgets |-> focusWidgets, focusCurrent |-> focusCurrent,
              emitted |-> <<>>, removes |-> {}]
  IN  IF Len(slots[obj]) >= 1 /\ slots[obj][1] = "focus"
        THEN FocusOnDisposed(st0, obj, prev)
        ELSE st0

\* C11: in a WidgetTracker, when the InstanceTracker's current goes to null
\* while the focus collaborator still reports a non-null focused widget W,
\* null is not emitted on the public "current changed" signal and
\* afterwards currentWidget is W.
C11_FocusedIsReasserted ==
  [][\A o \in Objs, prev \in Objs \cup {Null} :
       LET st == BeforeTrackerSlot(o, prev)
       IN  (/\ DisposeInstance(o, prev)
            /\ connected
            /\ Connected(slots[o], "tracker")
            /\ st.current = o
            /\ st.focusCurrent # Null) =>
             /\ <<"wCurrentChanged", Null>> \notin Range(emitted')
             /\ _current' = st.focusCurrent]_vars

\* C12: add and inject insert the instance into the tracked set in the
\* step of the call, so that it can be made current before the call's
\* connector save completes; an add that awaits a save emits "added" only
\* in the step in which that save completes.
C12_TrackedBeforeSaved ==
  [][/\ \A o \in Objs, n \in TrackerNames :
          (Add(o, n) /\ ~AddRefused(o)) =>
            /\ o \in _instances'
            /\ issued' # <<>> =>
                 /\ issued' = << <<"save", Key(n), Args(o)>> >>
                 /\ emitted' = <<>>
                 /\ store' = store
                 /\ \E p \in pending' \ pending :
                      p.op = "save" /\ p.obj = o /\ p.key = Key(n)
            /\ issued' = <<>> =>
                 emitted' = IF injectedProperty[o] THEN <<>>
                            ELSE << <<"added", o>> >>
     /\ \A o \in Objs :
          (Inject(o) /\ ~AddRefused(o)) =>
            o \in _instances' /\ issued' = <<>> /\ emitted' = <<>>
     /\ \A o \in Objs :
          (SetCurrent(o) /\ o \in _instances) => _current' = o
     /\ \A p \in pending, ok \in BOOLEAN :
          AddSettle(p, ok) =>
            IF ok
              THEN /\ store'[p.key] = Args(p.obj)
                   /\ emitted' = << <<"added", p.obj>> >>
              ELSE emitted' = <<>>]_vars

\* an instance is tracked and current while the save of its add is
\* outstanding and nothing is stored yet
C12_Witness ==
  \E p \in pending :
    /\ p.op = "save" /\ p.caller = "add"
    /\ p.obj \in _instances
    /\ _current = p.obj
    /\ store[p.key] = Absent

\* C13: once a non-injected instance has signalled its disposal under a
\* restore configuration and no connector operation is in flight any more,
\* the connector holds no record that the tracker wrote for that instance.
C13_DisposedLeavesNoRecord ==
  \A o \in Objs :
    (/\ isDisposedObj[o]
     /\ ~injectedProperty[o]
     /\ _restore # NoOptions
     /\ pending = {}) =>
      \A k \in Keys : store[k] # Args(o)

\* C14: during restore no command execution and no removal of a persisted
\* entry starts before the connector's listing has resolved and every
\* condition of `when` has settled; the batch starts in the step in which
\* the last of them resolves, which without `when` is the listing.
C14_GateBlocksBatch ==
  /\ [](\A k \in Keys :
          (entry[k] # "none" \/ execCnt[k] > 0 \/ removeCnt[k] > 0) =>
            listState = "ok" /\ whenPending = {})
  /\ [][(ListSettle(TRUE) /\ restorePc = "gate") =>
          IF whenPending = {}
            THEN /\ restorePc' = "batch"
                 /\ Len(issued') = Cardinality({k \in Keys : store[k] # Absent})
                 /\ \A k \in Keys : store[k] # Absent => entry'[k] # "none"
            ELSE /\ restorePc' = "gate"
                 /\ issued' = <<>>
                 /\ UNCHANGED <<entry, execCnt, removeCnt>>]_vars
  /\ [][\A i \in 1 .. MaxWhen :
          (WhenSettle(i, TRUE) /\ restorePc = "gate") =>
            IF listState = "ok" /\ whenPending = {i}
              THEN /\ restorePc' = "batch"
                   /\ \A k \in Keys : saved[k] # Absent => entry'[k] # "none"
              ELSE /\ restorePc' = "gate"
                   /\ issued' = <<>>
                   /\ UNCHANGED <<entry, execCnt, removeCnt>>]_vars

\* a restore with `when` has just started its batch, on an execution and a
\* removal
C14_Witness ==
  /\ _restore # NoOptions /\ _restore.nWhen >= 1
  /\ restorePc = "batch"
  /\ \E i \in 1 .. Len(issued) : issued[i][1] = "execute"
  /\ \E i \in 1 .. Len(issued) : issued[i][1] = "remove"

\* C15: setting InstanceTracker.current to a value that is not tracked
\* (null included) or to the value that is current changes no state and
\* emits nothing; setting it to a tracked instance that is not current
\* makes that instance current and emits one "current changed" signal
\* carrying it.
C15_CurrentSetter ==
  [][\A o \in Objs \cup {Null} :
       SetCurrent(o) =>
         /\ thrown' = ""
         /\ UNCHANGED <<objVars, _instances, _isDisposed, slots, restoreVars,
                        widgetVars, store, pending>>
         /\ IF o \notin _instances \/ o = _current
              THEN _current' = _current /\ emitted' = <<>>
              ELSE _current' = o
                   /\ emitted' = << <<"currentChanged", o>> >>]_vars

\* current has just been moved from one tracked instance to another
C15_Witness ==
  /\ emitted = << <<"currentChanged", "w2">> >>
  /\ _current = "w2"
  /\ {"w1", "w2"} \subseteq _instances
  /\ ~_isDisposed

\* the step in which the focus collaborator reports a focus change to w:
\* a widget it tracks takes the focus, or a widget that holds the focus is
\* registered with it by add
FocusReports(w) ==
  /\ ~w_isDisposed
  /\ \/ FocusChange(w)
     \/ \E n \in TrackerNames :
          WAdd(w, n, TRUE) /\ w \notin focusWidgets /\ focusCurrent # w

\* C16 as claimed: when the focus collaborator reports a focus change to a
\* non-null widget W while a different widget is currentWidget,
\* currentWidget becomes W and one public "current changed" signal
\* carrying W is emitted; a report of the widget that is current changes
\* and emits nothing.
C16_FocusedBecomesCurrent ==
  [][\A w \in Objs :
       FocusReports(w) =>
         IF w = _current
           THEN _current' = _current /\ emitted' = <<>>
           ELSE /\ _current' = w
                /\ emitted' = << <<"currentChanged", w>>,
                                 <<"wCurrentChanged", w>> >>]_vars

\* C16, amended: the same for a widget W that is in the tracked set; a
\* report of a widget that is not tracked leaves currentWidget as it was.
C16_TrackedFocusedBecomesCurrent ==
  [][\A w \in Objs :
       FocusReports(w) =>
         /\ w = _current => _current' = _current /\ emitted' = <<>>
         /\ (w # _current /\ w \in _instances) =>
              /\ _current' = w
              /\ emitted' = << <<"currentChanged", w>>,
                               <<"wCurrentChanged", w>> >>
         /\ w \notin _instances =>
              /\ _current' = _current
              /\ <<"wCurrentChanged", w>> \notin Range(emitted')]_vars

\* the focus has moved to a tracked widget, which is current now, while
\* the other widget stays tracked and no add is suspended
C16_Witness ==
  /\ ~w_isDisposed
  /\ pending = {}
  /\ _current # Null /\ focusCurrent = _current
  /\ _instances = Objs /\ focusWidgets = Objs
  /\ emitted = << <<"currentChanged", _current>>,
                  <<"wCurrentChanged", _current>> >>

\* C17: an instance that another tracker has injected is treated by this
\* tracker, which has a restore configuration and never injected it, as any
\* other: add saves it and announces it with "added", save() saves it, and
\* its disposal removes its persisted record.
C17_InjectedElsewhereIsPersisted ==
  [][/\ \A o \in SaveObjs, n \in ObjNames :
          (Add(o, n) /\ ~AddRefused(o)) =>
            IF _restore # NoOptions /\ n # ""
              THEN issued' = << <<"save", Key(n), Args(o)>> >>
              ELSE emitted' = << <<"added", o>> >>
     /\ \A p \in pending :
          AddSettle(p, TRUE) => emitted' = << <<"added", p.obj>> >>
     /\ \A o \in SaveObjs, n \in ObjNames \ {""} :
          (/\ Save(o, n)
           /\ _restore # NoOptions /\ o \in _instances
           /\ nameProperty[o] \in {"", Key(n)}) =>
            issued' = << <<"save", Key(n), Args(o)>> >>
     /\ \A o \in SaveObjs :
          (/\ DisposeInstance(o, Null)
           /\ _restore # NoOptions /\ o \in _instances
           /\ nameProperty[o] # "") =>
            issued' = << <<"remove", nameProperty[o], "">> >>]_vars

\* C18: once an InstanceTracker has been disposed, its tracked set is empty
\* and current is null in every later state.
C18_DisposedStaysEmpty ==
  _isDisposed => (_instances = {} /\ _current = Null)

\* the suspended save calls, other than p, that carry p's rename of p's
\* instance
SameRename(p) ==
  {q \in pending \ {p} :
     /\ q.caller = "save" /\ q.obj = p.obj
     /\ q.oldName = p.oldName /\ q.newName = p.newName}

\* C19: when save calls for one instance overlap across one change of its
\* name, the old key's removal is started once and "updated" is emitted
\* once for the rename: no save starts a removal that a suspended save of
\* the same rename has started, and when "updated" is emitted for a rename
\* no other suspended save carries that rename.
C19_OverlappingSavesRenameOnce ==
  [][/\ \A o \in SaveObjs, n \in ObjNames :
          (Save(o, n) /\ Eligible(o)
             /\ nameProperty[o] # "" /\ nameProperty[o] # NewNameOf(n)) =>
            ~\E q \in pending :
               /\ q.caller = "save" /\ q.obj = o
               /\ q.oldName = nameProperty[o] /\ q.newName = NewNameOf(n)
     /\ \A p \in pending :
          ((SaveSaveSettle(p, TRUE) \/ SaveRemoveSettle(p, TRUE))
             /\ <<"updated", p.obj>> \in Range(emitted')) =>
            SameRename(p) = {}]_vars

\* C20: every "added" signal carries an instance that is in the tracked
\* set when the signal is emitted.
C20_AddedIsTracked ==
  [][\A o \in Objs :
       <<"added", o>> \in Range(emitted') => o \in _instances']_vars

\* C21: an inject that fails because the instance is tracked as a
\* non-injected instance leaves the tracker's treatment of it unchanged: a
\* save of it still goes past its first check, and its disposal still
\* removes the record that it removed before.
C21_FailedInjectChangesNothing ==
  [][\A o \in Objs :
       (Inject(o) /\ o \in _instances /\ ~injectedProperty[o]) =>
         /\ thrown' = ExistsWarning
         /\ Eligible(o) => Eligible(o)'
         /\ DisposedRemoves(o, injectedProperty'[o], _restore', nameProperty'[o])
              = DisposedRemoves(o, injectedProperty[o], _restore, nameProperty[o])]_vars

====
